---------------------------- MODULE Spec2Model ----------------------------
(***************************************************************************)
(* A model of singstatdata/singstatdata.py: the Transport wrapper          *)
(* get_json, the Resolver get_resource_id, the Metadata Aggregator         *)
(* get_overview, the Series Fetcher get_timeseries and the Session class   *)
(* timeseries_search with its filter_datasets method.                      *)
(*                                                                         *)
(* Python strings that the code searches (titles, keyphrases) are          *)
(* sequences of one-character strings.  Python values whose type the code  *)
(* inspects are records [t, n, b, s, l]: t is the name of type(x), and     *)
(* n, b, s, l hold the value of an int, a bool, a str and a list.          *)
(***************************************************************************)
EXTENDS Integers, Sequences, FiniteSets, TLC

VARIABLES
    directory,   \* the 'records' of the remote directory listing
    catalogue,   \* the remote metadata: resourceId -> [frequency, startPeriod]
    session,     \* the timeseries_search object (exists = FALSE: none built)
    lastCall     \* the call being made or last made, its arguments and outcome

vars == <<directory, catalogue, session, lastCall>>

(***************************************************************************)
(* Bounds of the model.                                                    *)
(***************************************************************************)
MaxDir == 2        \* entries of a directory drawn for the stateless calls
NumDatasets == 3   \* datasets of the remote service a Session is built on

(***************************************************************************)
(* Python values.                                                          *)
(***************************************************************************)
PyNone == [t |-> "NoneType", n |-> 0, b |-> FALSE, s |-> <<>>, l |-> <<>>]
PyInt(i) == [t |-> "int", n |-> i, b |-> FALSE, s |-> <<>>, l |-> <<>>]
PyBool(v) == [t |-> "bool", n |-> 0, b |-> v, s |-> <<>>, l |-> <<>>]
PyStr(str) == [t |-> "str", n |-> 0, b |-> FALSE, s |-> str, l |-> <<>>]
PyFloat(i) == [t |-> "float", n |-> i, b |-> FALSE, s |-> <<>>, l |-> <<>>]
PyList(elems) == [t |-> "list", n |-> 0, b |-> FALSE, s |-> <<>>, l |-> elems]

\* isinstance(x, str)
IsInstanceStr(x) == x.t = "str"
\* isinstance(x, int): bool is a subclass of int
IsInstanceInt(x) == x.t \in {"int", "bool"}
\* isinstance(x, bool)
IsInstanceBool(x) == x.t = "bool"

Range(f) == {f[i] : i \in DOMAIN f}

(***************************************************************************)
(* Strings: str.lower, the substring test `in`, '|'.join and re.search.    *)
(***************************************************************************)
\* A string is the sequence of its symbols.  Titles and keyphrases are spelled
\* character by character; a frequency name, which the code lower-cases and
\* compares whole, is a single symbol.
LowerChar(c) ==
    CASE c = "A" -> "a"
      [] c = "B" -> "b"
      [] c = "Annual" -> "annual"
      [] c = "Quarterly" -> "quarterly"
      [] c = "Monthly" -> "monthly"
      [] c = "Half-Yearly" -> "half-yearly"
      [] c = "Ad-Hoc" -> "ad-hoc"
      [] OTHER -> c

\* str.lower()
Lower(str) == [i \in 1..Len(str) |-> LowerChar(str[i])]

\* needle in hay
Contains(hay, needle) ==
    \E i \in 0..(Len(hay) - Len(needle)) :
        SubSeq(hay, i + 1, i + Len(needle)) = needle

\* '|'.join(parts)
RECURSIVE JoinBar(_)
JoinBar(parts) ==
    IF Len(parts) = 0 THEN <<>>
    ELSE IF Len(parts) = 1 THEN parts[1]
    ELSE parts[1] \o <<"|">> \o JoinBar(Tail(parts))

\* The alternatives of a pattern: the pattern cut at every "|".
RECURSIVE Alternatives(_, _)
Alternatives(pattern, current) ==
    IF Len(pattern) = 0 THEN <<current>>
    ELSE IF Head(pattern) = "|"
         THEN <<current>> \o Alternatives(Tail(pattern), <<>>)
         ELSE Alternatives(Tail(pattern), Append(current, Head(pattern)))

\* One pattern character against one text character: "." matches any
\* character (no text of the model holds a newline), any other character of
\* the model's alphabet matches itself.
AtomMatches(p, c) == p = "." \/ p = c

\* re.search(pattern, text) is not None, for patterns over letters, "." and "|"
RegexSearch(pattern, text) ==
    LET alts == Alternatives(pattern, <<>>)
    IN \E a \in 1..Len(alts) :
          \E i \in 0..(Len(text) - Len(alts[a])) :
              \A j \in 1..Len(alts[a]) : AtomMatches(alts[a][j], text[i + j])

(***************************************************************************)
(* Transport.  A response is "ok" (the body parsed), "HTTPError"           *)
(* (raise_for_status raised) or "OtherError" (no connection, body not      *)
(* JSON).  get_json prints the error and returns None on both.             *)
(***************************************************************************)
Responses == {"ok", "HTTPError", "OtherError"}

NoJson == [isNone |-> TRUE, records |-> <<>>]

get_json(response, body) ==
    IF response = "ok" THEN [isNone |-> FALSE, records |-> body] ELSE NoJson

(***************************************************************************)
(* Outcomes of a call: kind is "pending" (not yet run), "raise" (with the  *)
(* exception's type in exc), or the kind of value returned: "None",        *)
(* "list", "frame", "dict".  fetches counts the Transport fetches issued.  *)
(***************************************************************************)
Pending == [kind |-> "pending", exc |-> "", val |-> <<>>, fetches |-> 0]
Raise(e, k) == [kind |-> "raise", exc |-> e, val |-> <<>>, fetches |-> k]
Return(kind, v, k) == [kind |-> kind, exc |-> "", val |-> v, fetches |-> k]

(***************************************************************************)
(* get_resource_id                                                         *)
(***************************************************************************)
\* list(dataset.values())[0] of every record of a list of records
IdsOf(records) == [i \in 1..Len(records) |-> records[i].resourceId]

\* lines 57-64: the parameter checks
ResourceIdArgsOk(keyphrases, match_all) ==
    /\ keyphrases.t # "NoneType" =>
          /\ keyphrases.t \in {"str", "list"}
          /\ keyphrases.t = "list" =>
                \A i \in 1..Len(keyphrases.l) : IsInstanceStr(keyphrases.l[i])
    /\ IsInstanceBool(match_all)

\* line 81 with the keyphrase taken as typed
MatchStrAsTyped(keyphrase, title) == Contains(Lower(title), keyphrase)

\* line 81: a single string
MatchStr(keyphrase, title) == Contains(Lower(title), Lower(keyphrase))

\* lines 84-85: a list, match_all == False
MatchAny(keyphrases, title) ==
    LET regstr == JoinBar([i \in 1..Len(keyphrases) |-> Lower(keyphrases[i].s)])
    IN RegexSearch(regstr, Lower(title))

\* line 87 with any() in place of all()
MatchAllAsAny(keyphrases, title) ==
    \E i \in 1..Len(keyphrases) : Contains(Lower(title), Lower(keyphrases[i].s))

\* line 87: a list, match_all == True
MatchAll(keyphrases, title) ==
    \A i \in 1..Len(keyphrases) : Contains(Lower(title), Lower(keyphrases[i].s))

get_resource_id(keyphrases, match_all, response, dir) ==
    IF ~ResourceIdArgsOk(keyphrases, match_all) THEN Raise("TypeError", 0)
    ELSE LET json == get_json(response, dir)
             recs == json.records
         IN IF json.isNone THEN Return("None", <<>>, 1)
            ELSE IF Len(recs) = 0 THEN Return("None", <<>>, 1)
            ELSE IF keyphrases.t = "NoneType"
                 THEN Return("list", IdsOf(recs), 1)
            ELSE IF keyphrases.t = "str"
                 THEN Return("list",
                        IdsOf(SelectSeq(recs,
                                LAMBDA r : MatchStr(keyphrases.s, r.title))), 1)
            ELSE IF match_all.b = FALSE
                 THEN Return("list",
                        IdsOf(SelectSeq(recs,
                                LAMBDA r : MatchAny(keyphrases.l, r.title))), 1)
                 ELSE Return("list",
                        IdsOf(SelectSeq(recs,
                                LAMBDA r : MatchAll(keyphrases.l, r.title))), 1)

(***************************************************************************)
(* check_resource_ids, get_overview, get_timeseries                        *)
(*                                                                         *)
(* The remote service answers a metadata or tabledata fetch for a dataset  *)
(* of the catalogue, and answers any other path ("metadata/True", an       *)
(* unknown number) with an HTTP error.  faultAt > 0 makes the faultAt-th   *)
(* fetch of a call fail with the response fault.                           *)
(***************************************************************************)
check_resource_ids(resource_ids) ==
    /\ resource_ids.t \in {"int", "list"}
    /\ resource_ids.t = "list" =>
          \A i \in 1..Len(resource_ids.l) : IsInstanceInt(resource_ids.l[i])

\* The identifiers a call walks through: the integer, or the list's elements
IdList(resource_ids) ==
    IF resource_ids.t = "int" THEN <<resource_ids>> ELSE resource_ids.l

ResponseFor(ID, k, faultAt, fault, cat) ==
    IF k = faultAt THEN fault
    ELSE IF ID.t = "int" /\ ID.n \in DOMAIN cat THEN "ok"
    ELSE "HTTPError"

\* The first fetch of the walk that get_json answers with None, 0 if none
FirstFailure(ids, faultAt, fault, cat) ==
    LET failing == {k \in 1..Len(ids) :
                       get_json(ResponseFor(ids[k], k, faultAt, fault, cat), <<>>).isNone}
    IN IF failing = {} THEN 0
       ELSE CHOOSE k \in failing : \A j \in failing : k <= j

\* build_metadata_table's row: the columns of the record that the code reads
MetadataRow(id, cat) ==
    [resourceId |-> id,
     frequency |-> cat[id].frequency,
     startPeriod |-> cat[id].startPeriod]

\* df.sort_values('resourceId') followed by reset_index
RECURSIVE InsertRow(_, _)
InsertRow(row, sorted) ==
    IF Len(sorted) = 0 THEN <<row>>
    ELSE IF row.resourceId < Head(sorted).resourceId THEN <<row>> \o sorted
    ELSE <<Head(sorted)>> \o InsertRow(row, Tail(sorted))

RECURSIVE SortByResourceId(_)
SortByResourceId(rows) ==
    IF Len(rows) = 0 THEN <<>>
    ELSE InsertRow(rows[Len(rows)], SortByResourceId(SubSeq(rows, 1, Len(rows) - 1)))

get_overview(resource_ids, faultAt, fault, cat) ==
    IF ~check_resource_ids(resource_ids) THEN Raise("TypeError", 0)
    ELSE LET ids == IdList(resource_ids)
             bad == FirstFailure(ids, faultAt, fault, cat)
         IN IF bad > 0 THEN Raise("TypeError", bad)   \* None['records']
            ELSE IF Len(ids) = 0 THEN Raise("KeyError", 0)   \* no column to sort by
            ELSE Return("frame",
                        SortByResourceId([k \in 1..Len(ids) |-> MetadataRow(ids[k].n, cat)]),
                        Len(ids))

DefaultLimit == 10000
DefaultOffset == 0

\* build_table's pivot of the observations of one dataset, kept abstract:
\* the table is named by the dataset and the window it was fetched with
SeriesTable(id, limit, offset) == [dataset |-> id, limit |-> limit, offset |-> offset]

get_timeseries(resource_ids, limit, offset, faultAt, fault, cat) ==
    IF ~check_resource_ids(resource_ids) THEN Raise("TypeError", 0)
    ELSE IF limit.t # "int" THEN Raise("TypeError", 0)
    ELSE IF offset.t # "int" THEN Raise("TypeError", 0)
    ELSE LET ids == IdList(resource_ids)
             bad == FirstFailure(ids, faultAt, fault, cat)
         IN IF bad > 0 THEN Raise("TypeError", bad)   \* None['records']
            ELSE Return("dict",
                        [id \in {ids[k].n : k \in 1..Len(ids)} |->
                            SeriesTable(id, limit.n, offset.n)],
                        Len(ids))

(***************************************************************************)
(* timeseries_search: the Session.                                         *)
(***************************************************************************)
NoSession ==
    [exists |-> FALSE, resource_ids |-> <<>>, overview |-> <<>>, timeseries |-> <<>>]

PyIntList(ids) == PyList([k \in 1..Len(ids) |-> PyInt(ids[k])])

\* A fault at fetch `at` of the whole call, seen from a part of the call that
\* starts after `before` fetches
FaultWithin(at, before) == IF at > before THEN at - before ELSE 0

\* __init__: the outcome of the constructor and the object it builds.  The
\* fetches of the three stages are numbered through: the directory is fetch 1.
timeseries_search_init(keyphrases, match_all, faultAt, fault, dir, cat) ==
    LET found == get_resource_id(keyphrases, match_all,
                                 IF faultAt = 1 THEN fault ELSE "ok", dir)
        ids == IF found.kind = "list" THEN PyIntList(found.val) ELSE PyNone
        table == get_overview(ids, FaultWithin(faultAt, found.fetches), fault, cat)
        series == get_timeseries(ids, PyInt(DefaultLimit), PyInt(DefaultOffset),
                                 FaultWithin(faultAt, found.fetches + table.fetches),
                                 fault, cat)
    IN IF found.kind = "raise" THEN [outcome |-> found, object |-> NoSession]
       ELSE IF table.kind = "raise"
            THEN [outcome |-> Raise(table.exc, found.fetches + table.fetches),
                  object |-> NoSession]
       ELSE IF series.kind = "raise"
            THEN [outcome |-> Raise(series.exc,
                                    found.fetches + table.fetches + series.fetches),
                  object |-> NoSession]
       ELSE [outcome |-> Return("object", <<>>,
                                found.fetches + table.fetches + series.fetches),
             object |-> [exists |-> TRUE,
                         resource_ids |-> found.val,
                         overview |-> table.val,
                         timeseries |-> series.val]]

\* len(str(n)) for an integer n
RECURSIVE DigitCount(_)
DigitCount(n) == IF n < 10 THEN 1 ELSE 1 + DigitCount(n \div 10)

StrLenOfInt(n) == IF n < 0 THEN 1 + DigitCount(-n) ELSE DigitCount(n)

\* lines 367-374: the parameter checks (len(str(None)) is 4)
FilterArgsOk(frequency, start_year, inplace) ==
    /\ frequency.t \in {"str", "list"}
    /\ frequency.t = "list" =>
          \A i \in 1..Len(frequency.l) : IsInstanceStr(frequency.l[i])
    /\ start_year.t \in {"int", "NoneType"}
    /\ start_year.t = "int" => StrLenOfInt(start_year.n) = 4
    /\ IsInstanceBool(inplace)

\* line 376
frequencies ==
    {<<"all,">>, <<"annual">>, <<"quarterly">>, <<"monthly">>, <<"ad-hoc">>,
     <<"half-yearly">>}

\* lines 380-383: the rows of the overview a list of frequencies keeps
FrequencyRows(overview, frequency) ==
    IF \A i \in 1..Len(frequency.l) : frequency.l[i].s # <<"all">>
    THEN SelectSeq(overview,
                   LAMBDA row : \E i \in 1..Len(frequency.l) :
                                   Lower(row.frequency) = frequency.l[i].s)
    ELSE overview

\* line 393: the rows whose start period's leading year is >= start_year
StartYearRows(rows, start_year) ==
    SelectSeq(rows, LAMBDA row : row.startPeriod.year >= start_year.n)

\* filter_datasets up to line 397: an exception, or new_ids
FilteredIds(self, frequency, start_year, inplace) ==
    IF ~FilterArgsOk(frequency, start_year, inplace) THEN Raise("TypeError", 0)
    ELSE IF frequency.t = "str"
         THEN Raise("UnboundLocalError", 0)       \* line 386 reads freq, never bound
    ELSE IF \E i \in 1..Len(frequency.l) : frequency.l[i].s \notin frequencies
         THEN Raise("AssertionError", 0)
    ELSE LET byFrequency == FrequencyRows(self.overview, frequency)
         IN IF start_year.t = "int" /\ start_year.n # 0
            THEN IF Len(byFrequency) = 0
                 THEN Raise("KeyError", 0)   \* an empty mask selects no column
                 ELSE Return("list", IdsOf(StartYearRows(byFrequency, start_year)), 0)
            ELSE Return("list", IdsOf(byFrequency), 0)

\* lines 400-402 without the assignment of line 402
UpdateInPlaceKeepingSeries(self, new_ids) ==
    [exists |-> TRUE,
     resource_ids |-> new_ids,
     overview |-> SelectSeq(self.overview,
                            LAMBDA row : row.resourceId \in Range(new_ids)),
     timeseries |-> self.timeseries]

\* lines 400-402 with the mask of line 401 inverted
UpdateInPlaceInverted(self, new_ids) ==
    [exists |-> TRUE,
     resource_ids |-> new_ids,
     overview |-> SelectSeq(self.overview,
                            LAMBDA row : row.resourceId \notin Range(new_ids)),
     timeseries |-> [id \in Range(new_ids) |-> self.timeseries[id]]]

\* lines 400-402: the three assignments of inplace == True
UpdateInPlace(self, new_ids) ==
    [exists |-> TRUE,
     resource_ids |-> new_ids,
     overview |-> SelectSeq(self.overview,
                            LAMBDA row : row.resourceId \in Range(new_ids)),
     timeseries |-> [id \in Range(new_ids) |-> self.timeseries[id]]]

\* filter_datasets: the outcome of the call and the object after it
filter_datasets(self, frequency, start_year, inplace) ==
    LET ids == FilteredIds(self, frequency, start_year, inplace)
    IN IF ids.kind = "raise" THEN [outcome |-> ids, object |-> self]
       ELSE IF inplace.b
            THEN [outcome |-> Return("None", <<>>, 0),
                  object |-> UpdateInPlace(self, ids.val)]
            ELSE [outcome |-> Return("dict",
                                     [id \in Range(ids.val) |-> self.timeseries[id]], 0),
                  object |-> self]

(***************************************************************************)
(* The inputs the model draws.                                             *)
(***************************************************************************)
\* All sequences over S of length at most n
SeqsUpTo(S, n) == UNION {[1..k -> S] : k \in 0..n}

Titles == {<<"A", "b">>, <<"b">>, <<"a", ".">>, <<"B", "a">>}
Phrases == {<<"a">>, <<"A">>, <<"b">>, <<"a", "B">>, <<".">>}

\* The remote directory lists its datasets newest first: the identifiers of
\* a directory of n entries run from n down to 1.
DirectoryOf(titles) ==
    [i \in 1..Len(titles) |->
        [resourceId |-> Len(titles) + 1 - i, title |-> titles[i]]]

Directories == {DirectoryOf(ts) : ts \in SeqsUpTo(Titles, MaxDir)}

\* The metadata of the remote datasets: dataset id of catalogue number k
\* has the entry id + k of this list, taken cyclically.
Metadata ==
    <<[frequency |-> <<"Quarterly">>, startPeriod |-> [year |-> 2000, rest |-> "1Q"]],
      [frequency |-> <<"Annual">>, startPeriod |-> [year |-> 1975, rest |-> ""]],
      [frequency |-> <<"Quarterly">>, startPeriod |-> [year |-> 1975, rest |-> "1Q"]],
      [frequency |-> <<"Monthly">>, startPeriod |-> [year |-> 2012, rest |-> "Jan"]]>>

CatalogueOf(k, n) == [id \in 1..n |-> Metadata[((id + k - 1) % Len(Metadata)) + 1]]

Catalogues(n) == {CatalogueOf(k, n) : k \in 0..(Len(Metadata) - 1)}

Faults == {"HTTPError", "OtherError"}

Call(op, a1, a2, a3, faultAt, fault, out) ==
    [op |-> op, a1 |-> a1, a2 |-> a2, a3 |-> a3,
     faultAt |-> faultAt, fault |-> fault, out |-> out]

NoCall == Call("none", PyNone, PyNone, PyNone, 0, "ok", Pending)

(***************************************************************************)
(* The Session: one timeseries_search object is built on a fixed directory *)
(* and re-filtered.                                                        *)
(***************************************************************************)
SessionTitles == <<<<"A", "b">>, <<"b">>, <<"a">>>>

SessionDirectory ==
    DirectoryOf([i \in 1..NumDatasets |->
                    SessionTitles[((i - 1) % Len(SessionTitles)) + 1]])

ConstructKeyphrases ==
    {PyNone, PyStr(<<"a">>), PyStr(<<"B">>), PyStr(<<"a", ".">>),
     PyList(<<PyStr(<<"a">>), PyStr(<<"b">>)>>)}

FrequencyArgs ==
    {PyStr(<<"all">>), PyStr(<<"quarterly">>),
     PyList(<<>>), PyList(<<PyStr(<<"all">>)>>), PyList(<<PyStr(<<"all,">>)>>),
     PyList(<<PyStr(<<"annual">>)>>), PyList(<<PyStr(<<"quarterly">>)>>),
     PyList(<<PyStr(<<"Quarterly">>)>>),
     PyList(<<PyStr(<<"annual">>), PyStr(<<"quarterly">>)>>),
     PyList(<<PyStr(<<"quarterly">>), PyStr(<<"all">>)>>)}

StartYearArgs ==
    {PyNone, PyInt(2000), PyInt(999), PyInt(12345), PyInt(-123), PyBool(TRUE)}

InplaceArgs == {PyBool(TRUE), PyBool(FALSE)}

Init ==
    /\ directory = SessionDirectory
    /\ catalogue \in Catalogues(NumDatasets)
    /\ session = NoSession
    /\ lastCall = NoCall

\* session = timeseries_search(keyphrases, match_all): a constructor that
\* raises binds no object, and the session stays what it was
Construct ==
    \E keyphrases \in ConstructKeyphrases, match_all \in {PyBool(TRUE), PyBool(FALSE)},
       faultAt \in 0..(1 + 2 * NumDatasets) :
        LET fault == IF faultAt = 0 THEN "ok" ELSE "HTTPError"
            built == timeseries_search_init(keyphrases, match_all, faultAt, fault,
                                            directory, catalogue)
        IN /\ session' = IF built.outcome.kind = "raise" THEN session ELSE built.object
           /\ lastCall' = Call("timeseries_search", keyphrases, match_all, PyNone,
                               faultAt, fault, built.outcome)
           /\ UNCHANGED <<directory, catalogue>>

\* session.filter_datasets(frequency, start_year, inplace)
Filter ==
    /\ session.exists
    /\ \E frequency \in FrequencyArgs, start_year \in StartYearArgs,
          inplace \in InplaceArgs :
        LET done == filter_datasets(session, frequency, start_year, inplace)
        IN /\ session' = done.object
           /\ lastCall' = Call("filter_datasets", frequency, start_year, inplace,
                               0, "ok", done.outcome)
           /\ UNCHANGED <<directory, catalogue>>

Next == Construct \/ Filter

Spec == Init /\ [][Next]_vars

(***************************************************************************)
(* The stateless calls: get_resource_id, get_overview and get_timeseries   *)
(* are functions of their arguments and of what Transport answers.  A      *)
(* behaviour draws one call and the remote data, then makes the call.      *)
(***************************************************************************)
MaxPhrases == 2    \* keyphrases in a list
MaxIds == 2        \* identifiers in a list

KeyphraseArgs ==
    {PyNone, PyInt(5), PyList(<<PyStr(<<"a">>), PyInt(5)>>)}
    \cup {PyStr(p) : p \in Phrases}
    \cup {PyList(ps) : ps \in SeqsUpTo({PyStr(p) : p \in Phrases}, MaxPhrases)}

MatchAllArgs == {PyBool(TRUE), PyBool(FALSE), PyInt(1)}

IdArgs ==
    {PyInt(i) : i \in 1..(NumDatasets + 1)}
    \cup {PyIntList(ids) : ids \in SeqsUpTo(1..NumDatasets, MaxIds)}
    \cup {PyNone, PyStr(<<"1">>), PyBool(TRUE), PyFloat(1),
          PyList(<<PyBool(TRUE)>>), PyList(<<PyInt(1), PyStr(<<"2">>)>>)}

LimitArgs == {PyInt(DefaultLimit), PyInt(2), PyStr(<<"2">>), PyBool(TRUE)}

OffsetArgs == {PyInt(DefaultOffset), PyInt(1), PyFloat(1), PyNone}

\* The fetches a call on ids can come to issue
FetchesOf(ids) == IF ids.t = "int" THEN 1 ELSE Len(ids.l)

ResourceIdRequests ==
    {Call("get_resource_id", k, m, PyNone,
          IF r = "ok" THEN 0 ELSE 1, r, Pending) :
        k \in KeyphraseArgs, m \in MatchAllArgs, r \in Responses}

OverviewRequests ==
    UNION {{Call("get_overview", ids, PyNone, PyNone, 0, "ok", Pending)}
           \cup {Call("get_overview", ids, PyNone, PyNone, at, f, Pending) :
                    at \in 1..FetchesOf(ids), f \in Faults} :
           ids \in IdArgs}

TimeseriesRequests ==
    UNION {{Call("get_timeseries", ids, limit, offset, 0, "ok", Pending) :
                limit \in LimitArgs, offset \in OffsetArgs}
           \cup {Call("get_timeseries", ids, PyInt(DefaultLimit), PyInt(DefaultOffset),
                      at, f, Pending) :
                    at \in 1..FetchesOf(ids), f \in Faults} :
           ids \in IdArgs}

InitApi ==
    /\ catalogue = CatalogueOf(0, NumDatasets)
    /\ session = NoSession
    /\ \/ directory \in Directories /\ lastCall \in ResourceIdRequests
       \/ directory = SessionDirectory
          /\ lastCall \in OverviewRequests \cup TimeseriesRequests

Answer(out) ==
    /\ lastCall' = [lastCall EXCEPT !.out = out]
    /\ UNCHANGED <<directory, catalogue, session>>

CallGetResourceId ==
    /\ lastCall.op = "get_resource_id"
    /\ lastCall.out.kind = "pending"
    /\ Answer(get_resource_id(lastCall.a1, lastCall.a2, lastCall.fault, directory))

CallGetOverview ==
    /\ lastCall.op = "get_overview"
    /\ lastCall.out.kind = "pending"
    /\ Answer(get_overview(lastCall.a1, lastCall.faultAt, lastCall.fault, catalogue))

CallGetTimeseries ==
    /\ lastCall.op = "get_timeseries"
    /\ lastCall.out.kind = "pending"
    /\ Answer(get_timeseries(lastCall.a1, lastCall.a2, lastCall.a3,
                             lastCall.faultAt, lastCall.fault, catalogue))

NextApi == CallGetResourceId \/ CallGetOverview \/ CallGetTimeseries

SpecApi == InitApi /\ [][NextApi]_vars

(***************************************************************************)
(* What the claims speak of, stated without the code's own operators.      *)
(***************************************************************************)
Done(op) == lastCall.op = op /\ lastCall.out.kind # "pending"

\* Two characters that are the same letter in either case
SameLetter(c, d) == c = d \/ {c, d} = {"a", "A"} \/ {c, d} = {"b", "B"}

\* title contains phrase as a plain substring, letter case ignored
ContainsIgnoringCase(title, phrase) ==
    \E i \in 0..(Len(title) - Len(phrase)) :
        \A j \in 1..Len(phrase) : SameLetter(title[i + j], phrase[j])

\* The strings that differ from phrase in letter case only
CaseVariants(phrase) ==
    {v \in [1..Len(phrase) -> {"a", "A", "b", "B", "."}] :
        \A j \in 1..Len(phrase) : SameLetter(v[j], phrase[j])}

\* A phrase none of whose characters is special in a regular expression
PlainPhrase(phrase) == \A j \in 1..Len(phrase) : phrase[j] \notin {".", "|"}

\* The identifiers, in directory order, of the entries whose title holds
\* some phrase of the set
IdsHoldingAny(dir, phrases) ==
    IdsOf(SelectSeq(dir, LAMBDA e : \E p \in phrases : ContainsIgnoringCase(e.title, p)))

\* The strings of a list of str values
StringsOf(list) == {list[i].s : i \in 1..Len(list)}

\* The directory reached the call: Transport answered with a non-empty listing
DirectoryFetched == lastCall.fault = "ok" /\ Len(directory) > 0

PhraseLists == SeqsUpTo({PyStr(p) : p \in Phrases}, MaxPhrases) \ {<<>>}

\* |resolve(...)| for a call that returns a list
CountOf(keyphrases, match_all) ==
    Len(get_resource_id(keyphrases, PyBool(match_all), lastCall.fault, directory).val)

C7_AnyKeyphraseIsPlainSubstring ==
    (/\ Done("get_resource_id")
     /\ DirectoryFetched
     /\ lastCall.a1.t = "list"
     /\ \A i \in 1..Len(lastCall.a1.l) : lastCall.a1.l[i].t = "str"
     /\ lastCall.a2 = PyBool(FALSE))
    => /\ lastCall.out.kind = "list"
       /\ lastCall.out.val = IdsHoldingAny(directory, StringsOf(lastCall.a1.l))

(***************************************************************************)
(* C8: resolve with a single keyphrase string is case-insensitive: any two *)
(* strings that differ only in letter case give the same result, the       *)
(* identifiers of the entries whose title contains the string ignoring     *)
(* case (when the directory was fetched and is not empty).                 *)
(***************************************************************************)
C8_SingleKeyphraseIgnoresCase ==
    (Done("get_resource_id") /\ lastCall.a1.t = "str")
    => /\ \A v \in CaseVariants(lastCall.a1.s) :
             get_resource_id(PyStr(v), lastCall.a2, lastCall.fault, directory)
             = lastCall.out
       /\ (DirectoryFetched /\ lastCall.a2.t = "bool")
          => /\ lastCall.out.kind = "list"
             /\ lastCall.out.val = IdsHoldingAny(directory, {lastCall.a1.s})

\* C8's case: a keyphrase found in a title that spells it in the other case
C8_Witness ==
    /\ Done("get_resource_id")
    /\ lastCall.a1 = PyStr(<<"a", "B">>)
    /\ lastCall.out.kind = "list"
    /\ Len(lastCall.out.val) > 0
    /\ \E i \in 1..Len(directory) : directory[i].title = <<"A", "b">>

(***************************************************************************)
(* C9: when Transport fails during resolve, overview or timeseries, the    *)
(* operation raises no error to the caller.                                *)
(***************************************************************************)
C9_TransportFailureIsNotRaised ==
    (/\ lastCall.op \in {"get_resource_id", "get_overview", "get_timeseries"}
     /\ lastCall.out.kind # "pending"
     /\ lastCall.faultAt > 0
     /\ lastCall.out.fetches >= lastCall.faultAt)
    => lastCall.out.kind # "raise"

(***************************************************************************)
(* C10: in resolve, overview and timeseries an argument of the wrong type  *)
(* or shape makes the call fail with InvalidArgument (TypeError) before    *)
(* any Transport fetch is issued.                                          *)
(***************************************************************************)
IsStringList(x) == x.t = "list" /\ \A i \in 1..Len(x.l) : x.l[i].t = "str"
IsIntegerList(x) == x.t = "list" /\ \A i \in 1..Len(x.l) : x.l[i].t = "int"

WrongArguments ==
    \/ /\ lastCall.op = "get_resource_id"
       /\ \/ ~(lastCall.a1.t \in {"NoneType", "str"} \/ IsStringList(lastCall.a1))
          \/ lastCall.a2.t # "bool"
    \/ /\ lastCall.op = "get_overview"
       /\ ~(lastCall.a1.t = "int" \/ IsIntegerList(lastCall.a1))
    \/ /\ lastCall.op = "get_timeseries"
       /\ \/ ~(lastCall.a1.t = "int" \/ IsIntegerList(lastCall.a1))
          \/ lastCall.a2.t # "int"
          \/ lastCall.a3.t # "int"

C10_WrongArgumentsFailBeforeAnyFetch ==
    (lastCall.out.kind # "pending" /\ WrongArguments)
    => /\ lastCall.out.kind = "raise"
       /\ lastCall.out.exc = "TypeError"
       /\ lastCall.out.fetches = 0

(***************************************************************************)
(* The filter, as the spec words it.                                       *)
(***************************************************************************)
RecognisedFrequencies ==
    {<<"all">>, <<"annual">>, <<"quarterly">>, <<"monthly">>, <<"ad-hoc">>,
     <<"half-yearly">>}

\* The frequencies a call asks for
Requested(frequency) ==
    IF frequency.t = "str" THEN {frequency.s} ELSE StringsOf(frequency.l)

\* A frequency of the overview and a requested one are equal ignoring case
SameFrequency(have, want) ==
    \/ have = want
    \/ <<have, want>> \in {<<<<"Annual">>, <<"annual">>>>,
                           <<<<"Quarterly">>, <<"quarterly">>>>,
                           <<<<"Monthly">>, <<"monthly">>>>,
                           <<<<"Half-Yearly">>, <<"half-yearly">>>>,
                           <<<<"Ad-Hoc">>, <<"ad-hoc">>>>}

\* A call the spec accepts: recognised frequencies, a start year that is
\* absent or has four digits, a boolean in_place
ValidFilterCall(call) ==
    /\ call.a1.t = "str" \/ IsStringList(call.a1)
    /\ Requested(call.a1) \subseteq RecognisedFrequencies
    /\ call.a2.t = "NoneType" \/ (call.a2.t = "int" /\ call.a2.n \in 1000..9999)
    /\ call.a3.t = "bool"

Survives(row, call) ==
    /\ \/ <<"all">> \in Requested(call.a1)
       \/ \E want \in Requested(call.a1) : SameFrequency(row.frequency, want)
    /\ call.a2.t = "int" => row.startPeriod.year >= call.a2.n

SurvivorsOf(overview, call) ==
    {overview[i].resourceId : i \in {j \in 1..Len(overview) : Survives(overview[j], call)}}

(***************************************************************************)
(* C1: in every state reached by constructing a Session and filtering it,  *)
(* the identifiers of resource_ids, of the overview rows and of the keys   *)
(* of timeseries are the same set.                                         *)
(***************************************************************************)
C1_SameIdentifierSet ==
    session.exists
    => /\ Range(session.resource_ids) = Range(IdsOf(session.overview))
       /\ Range(session.resource_ids) = DOMAIN session.timeseries

\* C1's case: an in-place filter has removed some datasets and kept others
C1_Witness ==
    /\ session.exists
    /\ Done("filter_datasets")
    /\ lastCall.a3 = PyBool(TRUE)
    /\ lastCall.out.kind = "None"
    /\ Len(session.resource_ids) \in 1..(NumDatasets - 1)

(***************************************************************************)
(* C2: a filter call with in_place=false leaves the Session as it was and  *)
(* returns a mapping from exactly the surviving identifiers to their       *)
(* cached tables.                                                          *)
(***************************************************************************)
C2_CopyFilterReturnsSurvivors ==
    [][(/\ lastCall'.op = "filter_datasets"
        /\ session.exists
        /\ ValidFilterCall(lastCall')
        /\ lastCall'.a3 = PyBool(FALSE))
       => /\ session' = session
          /\ lastCall'.out.kind = "dict"
          /\ DOMAIN lastCall'.out.val = SurvivorsOf(session.overview, lastCall')
          /\ \A id \in DOMAIN lastCall'.out.val :
                lastCall'.out.val[id] = session.timeseries[id]]_vars

(***************************************************************************)
(* C3: filter with in_place=true is idempotent: a second call with the     *)
(* same arguments leaves resource_ids, overview and timeseries as the      *)
(* first call left them.                                                   *)
(***************************************************************************)
C3_InPlaceFilterIsIdempotent ==
    (session.exists /\ Done("filter_datasets") /\ lastCall.a3 = PyBool(TRUE))
    => filter_datasets(session, lastCall.a1, lastCall.a2, lastCall.a3).object = session

\* C3's case: a first in-place call by frequency and start year that dropped
\* some datasets and kept others
C3_Witness ==
    /\ session.exists
    /\ Done("filter_datasets")
    /\ lastCall.a1 = PyList(<<PyStr(<<"quarterly">>)>>)
    /\ lastCall.a2 = PyInt(2000)
    /\ lastCall.a3 = PyBool(TRUE)
    /\ lastCall.out.kind = "None"
    /\ session.resource_ids # <<>>
    /\ \E id \in DOMAIN catalogue :
          /\ catalogue[id].frequency = <<"Quarterly">>
          /\ id \notin Range(session.resource_ids)

(***************************************************************************)
(* C4: filter(frequency="all") with no start_year succeeds on any Session, *)
(* and returns or leaves every identifier with its table, none added.      *)
(***************************************************************************)
C4_AllKeepsEverything ==
    [][(/\ lastCall'.op = "filter_datasets"
        /\ session.exists
        /\ lastCall'.a1 = PyStr(<<"all">>)
        /\ lastCall'.a2 = PyNone
        /\ lastCall'.a3.t = "bool")
       => /\ lastCall'.out.kind # "raise"
          /\ session'.timeseries = session.timeseries
          /\ Range(IdsOf(session'.overview)) = Range(IdsOf(session.overview))
          /\ ~lastCall'.a3.b => lastCall'.out.val = session.timeseries]_vars

(***************************************************************************)
(* C5: for a recognised frequency (a string or a sequence of strings) and  *)
(* an optional start_year, the surviving identifiers are exactly the rows  *)
(* whose frequency equals a requested one ignoring case (no frequency test *)
(* when "all" is requested) and whose start year is >= start_year.         *)
(***************************************************************************)
C5_SurvivorsMatchFrequencyAndYear ==
    [][(/\ lastCall'.op = "filter_datasets"
        /\ session.exists
        /\ ValidFilterCall(lastCall'))
       => /\ lastCall'.out.kind # "raise"
          /\ (IF lastCall'.a3.b THEN Range(session'.resource_ids)
              ELSE DOMAIN lastCall'.out.val)
             = SurvivorsOf(session.overview, lastCall')]_vars

(***************************************************************************)
(* The overview, as the spec words it.                                     *)
(***************************************************************************)
\* A sequence of distinct valid identifiers: integers that each name a
\* dataset of the remote service, no two of them equal
DistinctValidIds(x) ==
    /\ IsIntegerList(x)
    /\ \A i \in 1..Len(x.l) : x.l[i].n \in DOMAIN catalogue
    /\ \A i \in 1..Len(x.l) : \A j \in 1..Len(x.l) : i # j => x.l[i].n # x.l[j].n

\* Transport answered every fetch of the call
NoTransportFault == lastCall.faultAt = 0

(***************************************************************************)
(* C11: for any sequence ids of distinct valid identifiers given in any    *)
(* order, overview(ids) returns exactly len(ids) rows, one per requested   *)
(* identifier, ordered ascending by identifier.                            *)
(***************************************************************************)
C11_OverviewHasOneRowPerIdentifier ==
    (Done("get_overview") /\ NoTransportFault /\ DistinctValidIds(lastCall.a1))
    => /\ lastCall.out.kind = "frame"
       /\ Len(lastCall.out.val) = Len(lastCall.a1.l)
       /\ \A i \in 1..Len(lastCall.a1.l) :
             \E k \in 1..Len(lastCall.out.val) :
                lastCall.out.val[k].resourceId = lastCall.a1.l[i].n
       /\ \A k \in 1..(Len(lastCall.out.val) - 1) :
             lastCall.out.val[k].resourceId < lastCall.out.val[k + 1].resourceId

(***************************************************************************)
(* The start year, as the spec words it.                                   *)
(***************************************************************************)
\* An integer of exactly 4 digits
FourDigitInteger(x) == x.t = "int" /\ x.n \in 1000..9999

\* A filter call whose frequency and in_place have the types the spec asks
WellTypedFilterCall(call) ==
    /\ call.a1.t = "str" \/ IsStringList(call.a1)
    /\ call.a3.t = "bool"

(***************************************************************************)
(* C12: filter accepts an absent start_year (it is not rejected with       *)
(* InvalidArgument), and rejects with InvalidArgument (TypeError), leaving *)
(* the Session unchanged, every start_year that is present and is not an   *)
(* integer of exactly 4 digits, such as 999, 12345 or -123.                *)
(***************************************************************************)
C12_StartYearIsAbsentOrFourDigits ==
    [][(lastCall'.op = "filter_datasets" /\ session.exists)
       => /\ (lastCall'.a2.t = "NoneType" /\ WellTypedFilterCall(lastCall'))
             => ~(lastCall'.out.kind = "raise" /\ lastCall'.out.exc = "TypeError")
          /\ (lastCall'.a2.t # "NoneType" /\ ~FourDigitInteger(lastCall'.a2))
             => /\ lastCall'.out.kind = "raise"
                /\ lastCall'.out.exc = "TypeError"
                /\ session' = session]_vars

=============================================================================
